---- MODULE Spec2Model ----
(***************************************************************************)
(* A model of the 6502 execution core in src/src/hardware.rs: the CPU      *)
(* struct, its memory helpers, the addressing-mode resolver, LDA and ADC,  *)
(* the flag updater, the loader, reset and the interpreter loop.           *)
(*                                                                         *)
(* Bytes are 0..255 and words 0..65535.  Rust's integer addition panics on *)
(* overflow when the crate is built with overflow checks (the debug        *)
(* profile) and wraps when built without them (the release profile); the   *)
(* build is the variable overflow_checks, fixed in Init.  A panic ends the *)
(* run; the registers and memory keep the values they had at the panic.    *)
(***************************************************************************)
EXTENDS Integers, Naturals, Sequences, FiniteSets, TLC

VARIABLES
    cpu,              \* the CPU struct: registers and memory
    overflow_checks,  \* TRUE: built with overflow checks, FALSE: without
    ctl,              \* "host", "interpret" (inside the loop), "panicked", "done"
    call,             \* the most recent call made on the CPU and its argument
    outcome,          \* how that call ended: status and panic payload
    entry,            \* the CPU struct when the most recent call was made
    instr,            \* the most recent instruction the loop processed
    loads,            \* number of program images loaded so far
    direct            \* number of direct accesses by the host: field writes, helper calls

vars == <<cpu, overflow_checks, ctl, call, outcome, entry, instr, loads, direct>>

----------------------------------------------------------------------------
(* Widths and program constants.                                           *)

U8 == 256
U16 == 65536
STACK_START == 256
STACK_RESET == 253
MemLen == 65535
ProgramStart == 32768
ResetVector == 65532
PowerOnStatus == 36

Byte == 0 .. (U8 - 1)

----------------------------------------------------------------------------
(* Bit operations on naturals, as the code's &, | and shifts compute them. *)

\* 2 to the n
Pow2(n) == 2 ^ n

\* (x << n) on a value of the given width: bits shifted out are lost.
Shl(x, n, width) == (x * Pow2(n)) % width

\* (x >> n)
Shr(x, n) == x \div Pow2(n)

\* bit i of x, as 0 or 1
Bit(x, i) == (x \div Pow2(i)) % 2

\* a & b, bit by bit over the sixteen bits of the widest type
BitAnd(a, b) ==
    LET and[i \in 0..16] ==
            IF i = 16 THEN 0
            ELSE Bit(a, i) * Bit(b, i) * Pow2(i) + and[i + 1]
    IN  and[0]

\* a | b
BitOr(a, b) ==
    LET or[i \in 0..16] ==
            IF i = 16 THEN 0
            ELSE (IF Bit(a, i) = 1 \/ Bit(b, i) = 1 THEN Pow2(i) ELSE 0) + or[i + 1]
    IN  or[0]

----------------------------------------------------------------------------
(* Panics.  A panic carries its message and the values the message        *)
(* formats into it.                                                        *)

NoPanic == [kind |-> "none", args |-> <<>>]

\* indexing [u8; 0xFFFF] out of range
IndexOutOfBounds(index) ==
    [kind |-> "index out of bounds: the len is {} but the index is {}",
     args |-> <<MemLen, index>>]

\* slicing memory[0x8000..end] with end beyond the array
RangeEndOutOfRange(end) ==
    [kind |-> "range end index {} out of range for slice of length {}",
     args |-> <<end, MemLen>>]

\* an overflowing + or += in a build with overflow checks
AddOverflow == [kind |-> "attempt to add with overflow", args |-> <<>>]

\* todo!("write more functions for opcodes")
Todo == [kind |-> "not yet implemented: write more functions for opcodes",
         args |-> <<>>]

\* panic!("mode {:?} is not supported", mode)
ModeNotSupported == [kind |-> "mode NoneAddressing is not supported",
                     args |-> <<>>]

\* The result of a helper: the value it returns, or the panic it raised.
Ok(v) == [panic |-> NoPanic, val |-> v]
Fail(p) == [panic |-> p, val |-> 0]
IsOk(r) == r.panic = NoPanic

\* F applied to the value of e: e is evaluated once, as a statement's
\* right-hand side is, however often F uses it.
Bind(e, F(_)) == CHOOSE out \in {F(x) : x \in {e}} : TRUE

\* a + b in an unsigned type of the given width
CheckedAdd(a, b, width, checks) ==
    IF a + b >= width /\ checks THEN Fail(AddOverflow)
    ELSE Ok((a + b) % width)

\* wrapping_add without the wrap
wrapping_add_no_wrap(a, b, width) == a + b

\* wrapping_add that wraps at the byte boundary whatever the type
wrapping_add_byte(a, b, width) == (a + b) % 256

\* a.wrapping_add(b)
wrapping_add(a, b, width) == (a + b) % width

----------------------------------------------------------------------------
(* Memory.  The array is zero-filled at construction; the model keeps the  *)
(* cells that hold a non-zero byte, every other cell of 0..MemLen-1 reads  *)
(* as zero.                                                                *)

ZeroMemory == [a \in {} |-> 0]

Cell(memory, a) == IF a \in DOMAIN memory THEN memory[a] ELSE 0

Store(memory, a, data) ==
    [x \in (IF data = 0 THEN DOMAIN memory \ {a} ELSE DOMAIN memory \cup {a}) |->
        IF x = a THEN data ELSE memory[x]]

new ==
    [accumulator |-> 0,
     index_x |-> 0,
     index_y |-> 0,
     status |-> PowerOnStatus,
     program_counter |-> 0,
     stack_pointer |-> STACK_RESET,
     memory |-> ZeroMemory]

\* self.memory[address as usize]
mem_read(c, address) ==
    IF address >= MemLen THEN Fail(IndexOutOfBounds(address))
    ELSE Ok(Cell(c.memory, address))

\* self.memory[address as usize] = data; the value is the CPU struct after it
mem_write(c, address, data) ==
    IF address >= MemLen THEN [panic |-> IndexOutOfBounds(address), val |-> c]
    ELSE Ok([c EXCEPT !.memory = Store(c.memory, address, data)])

\* (byte_two as u16) << 8 | (byte_one as u16)
LittleEndian(byte_one, byte_two) == BitOr(Shl(byte_two, 8, U16), byte_one)

mem_read_u16(c, address, checks) ==
    LET Join(byte_one, byte_two) ==
            IF ~IsOk(byte_two) THEN byte_two
            ELSE Ok(LittleEndian(byte_one.val, byte_two.val))
        High(byte_one, next) ==
            IF ~IsOk(next) THEN next
            ELSE Bind(mem_read(c, next.val), LAMBDA byte_two : Join(byte_one, byte_two))
        Low(byte_one) ==
            IF ~IsOk(byte_one) THEN byte_one
            ELSE Bind(CheckedAdd(address, 1, U16, checks),
                      LAMBDA next : High(byte_one, next))
    IN  Bind(mem_read(c, address), Low)

mem_write_u16(c, address, data, checks) ==
    LET High(first, next, byte_two) ==
            IF ~IsOk(next) THEN [panic |-> next.panic, val |-> first.val]
            ELSE mem_write(first.val, next.val, byte_two)
        Low(first, byte_two) ==
            IF ~IsOk(first) THEN first
            ELSE Bind(CheckedAdd(address, 1, U16, checks),
                      LAMBDA next : High(first, next, byte_two))
    IN  Bind(mem_write(c, address, BitAnd(data, 255)),
             LAMBDA first : Low(first, Shr(data, 8) % U8))

----------------------------------------------------------------------------
(* The addressing-mode resolver.                                           *)

AddressingMode ==
    {"Immediate", "ZeroPage", "Absolute", "ZeroPageX", "ZeroPageY",
     "AbsoluteX", "AbsoluteY", "IndirectX", "IndirectY", "NoneAddressing"}

\* address_operand with the high pointer byte of IndirectX read at offset + 1
\* without the 8-bit wrap.
address_operand_high_byte_past_page(c, mode, checks) ==
    LET \* the operand byte or word, plus an index register
        Indexed(operand, index, width) ==
            IF ~IsOk(operand) THEN operand
            ELSE Ok(wrapping_add(operand.val, index, width))
        \* the two pointer bytes, plus an index
        Pointer(byte_one, byte_two, index) ==
            IF ~IsOk(byte_one) THEN byte_one
            ELSE IF ~IsOk(byte_two) THEN byte_two
            ELSE Ok(wrapping_add(LittleEndian(byte_one.val, byte_two.val),
                                 index, U16))
        Deref(offset, index) ==
            Bind(mem_read(c, offset), LAMBDA byte_one :
                Bind(mem_read(c, wrapping_add(offset, 1, U8)), LAMBDA byte_two :
                    Pointer(byte_one, byte_two, index)))
        DerefPast(offset) ==
            Bind(mem_read(c, offset), LAMBDA byte_one :
                Bind(mem_read(c, offset + 1), LAMBDA byte_two :
                    Pointer(byte_one, byte_two, 0)))
        IndirectX(base) ==
            IF ~IsOk(base) THEN base
            ELSE Bind(wrapping_add(base.val, c.index_x, U8), DerefPast)
        IndirectY(base) ==
            IF ~IsOk(base) THEN base
            ELSE Deref(base.val, c.index_y)
    IN  CASE mode = "Immediate" -> Ok(c.program_counter)
          [] mode = "ZeroPage" -> mem_read(c, c.program_counter)
          [] mode = "Absolute" -> mem_read_u16(c, c.program_counter, checks)
          [] mode = "ZeroPageX" ->
                Bind(mem_read(c, c.program_counter),
                     LAMBDA operand : Indexed(operand, c.index_x, U8))
          [] mode = "ZeroPageY" ->
                Bind(mem_read(c, c.program_counter),
                     LAMBDA operand : Indexed(operand, c.index_y, U8))
          [] mode = "AbsoluteX" ->
                Bind(mem_read_u16(c, c.program_counter, checks),
                     LAMBDA operand : Indexed(operand, c.index_x, U16))
          [] mode = "AbsoluteY" ->
                Bind(mem_read_u16(c, c.program_counter, checks),
                     LAMBDA operand : Indexed(operand, c.index_y, U16))
          [] mode = "IndirectX" -> Bind(mem_read(c, c.program_counter), IndirectX)
          [] mode = "IndirectY" -> Bind(mem_read(c, c.program_counter), IndirectY)
          [] OTHER -> Fail(ModeNotSupported)

\* address_operand with index_y added to the zero-page pointer of IndirectY
\* before the dereference, the way IndirectX uses index_x.
address_operand_index_before_deref(c, mode, checks) ==
    LET \* the operand byte or word, plus an index register
        Indexed(operand, index, width) ==
            IF ~IsOk(operand) THEN operand
            ELSE Ok(wrapping_add(operand.val, index, width))
        \* the two pointer bytes, plus an index
        Pointer(byte_one, byte_two, index) ==
            IF ~IsOk(byte_one) THEN byte_one
            ELSE IF ~IsOk(byte_two) THEN byte_two
            ELSE Ok(wrapping_add(LittleEndian(byte_one.val, byte_two.val),
                                 index, U16))
        Deref(offset, index) ==
            Bind(mem_read(c, offset), LAMBDA byte_one :
                Bind(mem_read(c, wrapping_add(offset, 1, U8)), LAMBDA byte_two :
                    Pointer(byte_one, byte_two, index)))
        IndirectX(base) ==
            IF ~IsOk(base) THEN base
            ELSE Bind(wrapping_add(base.val, c.index_x, U8), LAMBDA offset : Deref(offset, 0))
        IndirectY(base) ==
            IF ~IsOk(base) THEN base
            ELSE Bind(wrapping_add(base.val, c.index_y, U8), LAMBDA offset : Deref(offset, 0))
    IN  CASE mode = "Immediate" -> Ok(c.program_counter)
          [] mode = "ZeroPage" -> mem_read(c, c.program_counter)
          [] mode = "Absolute" -> mem_read_u16(c, c.program_counter, checks)
          [] mode = "ZeroPageX" ->
                Bind(mem_read(c, c.program_counter),
                     LAMBDA operand : Indexed(operand, c.index_x, U8))
          [] mode = "ZeroPageY" ->
                Bind(mem_read(c, c.program_counter),
                     LAMBDA operand : Indexed(operand, c.index_y, U8))
          [] mode = "AbsoluteX" ->
                Bind(mem_read_u16(c, c.program_counter, checks),
                     LAMBDA operand : Indexed(operand, c.index_x, U16))
          [] mode = "AbsoluteY" ->
                Bind(mem_read_u16(c, c.program_counter, checks),
                     LAMBDA operand : Indexed(operand, c.index_y, U16))
          [] mode = "IndirectX" -> Bind(mem_read(c, c.program_counter), IndirectX)
          [] mode = "IndirectY" -> Bind(mem_read(c, c.program_counter), IndirectY)
          [] OTHER -> Fail(ModeNotSupported)

address_operand(c, mode, checks) ==
    LET \* the operand byte or word, plus an index register
        Indexed(operand, index, width) ==
            IF ~IsOk(operand) THEN operand
            ELSE Ok(wrapping_add(operand.val, index, width))
        \* the two pointer bytes, plus an index
        Pointer(byte_one, byte_two, index) ==
            IF ~IsOk(byte_one) THEN byte_one
            ELSE IF ~IsOk(byte_two) THEN byte_two
            ELSE Ok(wrapping_add(LittleEndian(byte_one.val, byte_two.val),
                                 index, U16))
        Deref(offset, index) ==
            Bind(mem_read(c, offset), LAMBDA byte_one :
                Bind(mem_read(c, wrapping_add(offset, 1, U8)), LAMBDA byte_two :
                    Pointer(byte_one, byte_two, index)))
        IndirectX(base) ==
            IF ~IsOk(base) THEN base
            ELSE Bind(wrapping_add(base.val, c.index_x, U8), LAMBDA offset : Deref(offset, 0))
        IndirectY(base) ==
            IF ~IsOk(base) THEN base
            ELSE Deref(base.val, c.index_y)
    IN  CASE mode = "Immediate" -> Ok(c.program_counter)
          [] mode = "ZeroPage" -> mem_read(c, c.program_counter)
          [] mode = "Absolute" -> mem_read_u16(c, c.program_counter, checks)
          [] mode = "ZeroPageX" ->
                Bind(mem_read(c, c.program_counter),
                     LAMBDA operand : Indexed(operand, c.index_x, U8))
          [] mode = "ZeroPageY" ->
                Bind(mem_read(c, c.program_counter),
                     LAMBDA operand : Indexed(operand, c.index_y, U8))
          [] mode = "AbsoluteX" ->
                Bind(mem_read_u16(c, c.program_counter, checks),
                     LAMBDA operand : Indexed(operand, c.index_x, U16))
          [] mode = "AbsoluteY" ->
                Bind(mem_read_u16(c, c.program_counter, checks),
                     LAMBDA operand : Indexed(operand, c.index_y, U16))
          [] mode = "IndirectX" -> Bind(mem_read(c, c.program_counter), IndirectX)
          [] mode = "IndirectY" -> Bind(mem_read(c, c.program_counter), IndirectY)
          [] OTHER -> Fail(ModeNotSupported)

----------------------------------------------------------------------------
(* The flag updater and the two operations.  Each takes the CPU struct and *)
(* returns the struct it leaves, with the panic that stopped it if any.    *)

Done(c) == [panic |-> NoPanic, val |-> c]
Stopped(p, c) == [panic |-> p, val |-> c]

\* update_flags with the zero flag cleared through a mask that is one bit
\* too wide (0b11111100 for 0b11111101).
update_flags_wide_mask(c, to_check) ==
    LET Negative(status) ==
            IF BitAnd(to_check, 128) = 128
            THEN BitOr(status, 128)
            ELSE BitAnd(status, 127)
        Zero(status) ==
            IF to_check = 0
            THEN BitOr(status, 2)
            ELSE BitAnd(status, 252)
    IN  [c EXCEPT !.status = Bind(Bind(c.status, Zero), Negative)]

update_flags(c, to_check) ==
    LET Negative(status) ==
            IF BitAnd(to_check, 128) = 128
            THEN BitOr(status, 128)
            ELSE BitAnd(status, 127)
        Zero(status) ==
            IF to_check = 0
            THEN BitOr(status, 2)
            ELSE BitAnd(status, 253)
    IN  [c EXCEPT !.status = Bind(Bind(c.status, Zero), Negative)]

lda(c, mode, checks) ==
    LET Assign(value) ==
            IF ~IsOk(value) THEN Stopped(value.panic, c)
            ELSE Done([c EXCEPT !.accumulator = value.val])
        Read(address) ==
            IF ~IsOk(address) THEN Stopped(address.panic, c)
            ELSE Bind(mem_read(c, address.val), Assign)
    IN  Bind(address_operand(c, mode, checks), Read)

\* adc with the carry flag derived from a wide sum first, so that the
\* status register is already written when the 8-bit addition panics.
adc_carry_before_sum(c, mode, checks) ==
    LET Carry(status, raw_sum) ==
            IF raw_sum > 255 THEN BitOr(status, 1) ELSE BitAnd(status, 254)
        Overflow(status, sum) ==
            IF sum > 127 THEN BitOr(status, 64) ELSE BitAnd(status, 191)
        Sum(sum, wide) ==
            IF ~IsOk(sum)
            THEN Stopped(sum.panic, [c EXCEPT !.status = Carry(c.status, wide)])
            ELSE Done(update_flags(
                    [c EXCEPT !.status = Bind(Carry(c.status, wide),
                                             LAMBDA status : Overflow(status, sum.val)),
                              !.accumulator = sum.val],
                    sum.val))
        Add(value) ==
            IF ~IsOk(value) THEN Stopped(value.panic, c)
            ELSE Bind(CheckedAdd(c.accumulator, value.val, U8, checks),
                      LAMBDA sum : Sum(sum, c.accumulator + value.val))
        Read(address) ==
            IF ~IsOk(address) THEN Stopped(address.panic, c)
            ELSE Bind(mem_read(c, address.val), Add)
    IN  Bind(address_operand(c, mode, checks), Read)

\* adc with the overflow flag kept in bit 5 (0b00100000) instead of bit 6.
adc_overflow_on_bit_five(c, mode, checks) ==
    LET \* raw_sum is the u8 sum widened to i32
        Carry(status, raw_sum) ==
            IF raw_sum > 255 THEN BitOr(status, 1) ELSE BitAnd(status, 254)
        Overflow(status, sum) ==
            IF sum > 127 THEN BitOr(status, 32) ELSE BitAnd(status, 223)
        \* the three additions of accumulator and value overflow together
        Sum(sum) ==
            IF ~IsOk(sum) THEN Stopped(sum.panic, c)
            ELSE Done(update_flags(
                    [c EXCEPT !.status = Bind(Carry(c.status, sum.val),
                                             LAMBDA status : Overflow(status, sum.val)),
                              !.accumulator = sum.val],
                    sum.val))
        Add(value) ==
            IF ~IsOk(value) THEN Stopped(value.panic, c)
            ELSE Bind(CheckedAdd(c.accumulator, value.val, U8, checks), Sum)
        Read(address) ==
            IF ~IsOk(address) THEN Stopped(address.panic, c)
            ELSE Bind(mem_read(c, address.val), Add)
    IN  Bind(address_operand(c, mode, checks), Read)

adc(c, mode, checks) ==
    LET \* raw_sum is the u8 sum widened to i32
        Carry(status, raw_sum) ==
            IF raw_sum > 255 THEN BitOr(status, 1) ELSE BitAnd(status, 254)
        Overflow(status, sum) ==
            IF sum > 127 THEN BitOr(status, 64) ELSE BitAnd(status, 191)
        \* the three additions of accumulator and value overflow together
        Sum(sum) ==
            IF ~IsOk(sum) THEN Stopped(sum.panic, c)
            ELSE Done(update_flags(
                    [c EXCEPT !.status = Bind(Carry(c.status, sum.val),
                                             LAMBDA status : Overflow(status, sum.val)),
                              !.accumulator = sum.val],
                    sum.val))
        Add(value) ==
            IF ~IsOk(value) THEN Stopped(value.panic, c)
            ELSE Bind(CheckedAdd(c.accumulator, value.val, U8, checks), Sum)
        Read(address) ==
            IF ~IsOk(address) THEN Stopped(address.panic, c)
            ELSE Bind(mem_read(c, address.val), Add)
    IN  Bind(address_operand(c, mode, checks), Read)

----------------------------------------------------------------------------
(* Loader and reset.  A program image is its length and its non-zero       *)
(* bytes: the byte at index i is nz[i] when i is in DOMAIN nz and zero     *)
(* otherwise.                                                              *)

ByteAt(instructions, i) ==
    IF i \in DOMAIN instructions.nz THEN instructions.nz[i] ELSE 0

\* vec![...] written as a sequence
Image(bytes) ==
    [len |-> Len(bytes),
     nz |-> [i \in {j \in 0 .. (Len(bytes) - 1) : bytes[j + 1] # 0} |->
                bytes[i + 1]]]

\* copy_from_slice with the destination one cell too high
\* (memory[0x8001..]).
copy_from_slice_off_by_one(memory, instructions) ==
    [a \in {x \in DOMAIN memory :
                x < ProgramStart + 1 \/ x >= ProgramStart + 1 + instructions.len}
           \cup {ProgramStart + 1 + i : i \in DOMAIN instructions.nz} |->
        IF a - ProgramStart - 1 \in DOMAIN instructions.nz
        THEN instructions.nz[a - ProgramStart - 1]
        ELSE memory[a]]

\* self.memory[0x8000..end].copy_from_slice(&instructions[..])
copy_from_slice(memory, instructions) ==
    [a \in {x \in DOMAIN memory :
                x < ProgramStart \/ x >= ProgramStart + instructions.len}
           \cup {ProgramStart + i : i \in DOMAIN instructions.nz} |->
        IF a - ProgramStart \in DOMAIN instructions.nz
        THEN instructions.nz[a - ProgramStart]
        ELSE memory[a]]

\* load with its two statements in the other order: the reset vector is
\* written first and the image copied over it.
load_vector_first(c, instructions, checks) ==
    LET Copy(written) ==
            IF ~IsOk(written) THEN written
            ELSE Done([written.val EXCEPT
                        !.memory = copy_from_slice(written.val.memory, instructions)])
    IN  IF ProgramStart + instructions.len > MemLen
        THEN Stopped(RangeEndOutOfRange(ProgramStart + instructions.len), c)
        ELSE Copy(mem_write_u16(c, ResetVector, ProgramStart, checks))

load(c, instructions, checks) ==
    IF ProgramStart + instructions.len > MemLen
    THEN Stopped(RangeEndOutOfRange(ProgramStart + instructions.len), c)
    ELSE mem_write_u16(
            [c EXCEPT !.memory = copy_from_slice(c.memory, instructions)],
            ResetVector, ProgramStart, checks)

\* reset without the assignment to the status register.
reset_keeps_status(c, checks) ==
    LET Vector(cleared, vector) ==
            IF ~IsOk(vector) THEN Stopped(vector.panic, cleared)
            ELSE Done([cleared EXCEPT !.program_counter = vector.val])
    IN  Vector([c EXCEPT !.accumulator = 0,
                         !.index_x = 0,
                         !.index_y = 0,
                         !.stack_pointer = STACK_RESET],
               mem_read_u16(c, ResetVector, checks))

reset(c, checks) ==
    LET Vector(cleared, vector) ==
            IF ~IsOk(vector) THEN Stopped(vector.panic, cleared)
            ELSE Done([cleared EXCEPT !.program_counter = vector.val])
    IN  Vector([c EXCEPT !.accumulator = 0,
                         !.index_x = 0,
                         !.index_y = 0,
                         !.stack_pointer = STACK_RESET,
                         !.status = PowerOnStatus],
               mem_read_u16(c, ResetVector, checks))

----------------------------------------------------------------------------
(* The interpreter loop.                                                   *)

\* The match arms of interpret: operation, addressing mode and the amount
\* the arm adds to the program counter after the operation.
InstructionTable ==
    [opcode \in Byte |->
        CASE opcode = 169 -> [op |-> "lda", mode |-> "Immediate", len |-> 1]
          [] opcode = 165 -> [op |-> "lda", mode |-> "ZeroPage", len |-> 1]
          [] opcode = 181 -> [op |-> "lda", mode |-> "ZeroPageX", len |-> 1]
          [] opcode = 173 -> [op |-> "lda", mode |-> "Absolute", len |-> 2]
          [] opcode = 189 -> [op |-> "lda", mode |-> "AbsoluteX", len |-> 2]
          [] opcode = 185 -> [op |-> "lda", mode |-> "AbsoluteY", len |-> 2]
          [] opcode = 161 -> [op |-> "lda", mode |-> "IndirectX", len |-> 1]
          [] opcode = 177 -> [op |-> "lda", mode |-> "IndirectY", len |-> 1]
          [] opcode = 105 -> [op |-> "adc", mode |-> "Immediate", len |-> 1]
          [] opcode = 101 -> [op |-> "adc", mode |-> "ZeroPage", len |-> 1]
          [] opcode = 117 -> [op |-> "adc", mode |-> "ZeroPageX", len |-> 1]
          [] opcode = 109 -> [op |-> "adc", mode |-> "Absolute", len |-> 2]
          [] opcode = 125 -> [op |-> "adc", mode |-> "AbsoluteX", len |-> 2]
          [] opcode = 121 -> [op |-> "adc", mode |-> "AbsoluteY", len |-> 2]
          [] opcode = 97 -> [op |-> "adc", mode |-> "IndirectX", len |-> 1]
          [] opcode = 113 -> [op |-> "adc", mode |-> "IndirectY", len |-> 1]
          [] opcode = 0 -> [op |-> "return", mode |-> "NoneAddressing", len |-> 0]
          [] OTHER -> [op |-> "todo", mode |-> "NoneAddressing", len |-> 0]]

\* self.program_counter += n that leaves the program counter where it is
advance_stays(c, n, checks) == Done(c)

\* self.program_counter += n
advance(c, n, checks) ==
    LET Assign(next) ==
            IF ~IsOk(next) THEN Stopped(next.panic, c)
            ELSE Done([c EXCEPT !.program_counter = next.val])
    IN  Bind(CheckedAdd(c.program_counter, n, U16, checks), Assign)

\* let opcode = self.memory[self.program_counter as usize]
fetch(c) == mem_read(c, c.program_counter)

\* execute with every arm advancing the program counter by 1, also the
\* arms of the three-byte instructions.
execute_advance_one(c, e, checks) ==
    LET After(ran) ==
            IF ~IsOk(ran) THEN ran ELSE advance(ran.val, 1, checks)
    IN  CASE e.op = "return" -> Done(c)
          [] e.op = "todo" -> Stopped(Todo, c)
          [] e.op = "lda" -> Bind(lda(c, e.mode, checks), After)
          [] e.op = "adc" -> Bind(adc(c, e.mode, checks), After)

\* One match arm: the operation, then the arm's program-counter advance.
execute(c, e, checks) ==
    LET After(ran) ==
            IF ~IsOk(ran) THEN ran ELSE advance(ran.val, e.len, checks)
    IN  CASE e.op = "return" -> Done(c)
          [] e.op = "todo" -> Stopped(Todo, c)
          [] e.op = "lda" -> Bind(lda(c, e.mode, checks), After)
          [] e.op = "adc" -> Bind(adc(c, e.mode, checks), After)

\* One iteration of the loop: fetch, increment, dispatch.
iteration(c, checks) ==
    LET Dispatch(opcode, fetched) ==
            IF ~IsOk(fetched) THEN fetched
            ELSE Bind(fetched.val,
                      LAMBDA next : execute(next, InstructionTable[opcode.val], checks))
        Fetched(opcode) ==
            IF ~IsOk(opcode) THEN Stopped(opcode.panic, c)
            ELSE Bind(advance(c, 1, checks), LAMBDA fetched : Dispatch(opcode, fetched))
    IN  Bind(fetch(c), Fetched)

\* What the loop did in an iteration that started with the struct c: where
\* the opcode was fetched, the struct at that moment, the arm taken, and the
\* address and operand byte the operation read (-1 where there is none).
Trace(c, checks) ==
    LET Operand(opcode, e, address, value) ==
            [at |-> c.program_counter,
             before |-> c,
             opcode |-> opcode,
             op |-> e.op,
             mode |-> e.mode,
             address |-> IF IsOk(address) THEN address.val ELSE -1,
             value |-> IF IsOk(address) /\ IsOk(value) THEN value.val ELSE -1]
        Resolved(opcode, e, fetched, address) ==
            Bind(IF IsOk(address) THEN mem_read(fetched, address.val) ELSE address,
                 LAMBDA value : Operand(opcode, e, address, value))
        Decoded(opcode, e, fetched) ==
            Bind(IF e.op \in {"lda", "adc"}
                 THEN address_operand(fetched, e.mode, checks)
                 ELSE Fail(ModeNotSupported),
                 LAMBDA address : Resolved(opcode, e, fetched, address))
        Fetched(opcode) ==
            IF ~IsOk(opcode)
            THEN [at |-> c.program_counter, before |-> c, opcode |-> -1,
                  op |-> "none", mode |-> "NoneAddressing",
                  address |-> -1, value |-> -1]
            ELSE Bind(advance(c, 1, checks).val,
                      LAMBDA fetched :
                          Decoded(opcode.val, InstructionTable[opcode.val], fetched))
    IN  Bind(fetch(c), Fetched)

NoInstr ==
    [at |-> -1, before |-> new, opcode |-> -1, op |-> "none",
     mode |-> "NoneAddressing", address |-> -1, value |-> -1]

----------------------------------------------------------------------------
(* Bounds and inputs.                                                      *)

MaxLoads == 1
MaxPokes == 1
MaxMemCalls == 2

\* Short programs, each written as the vec! a caller would pass.
ShortPrograms ==
    {<<169, v, 0>> : v \in {0, 5, 128}}
    \cup {<<169, 80, 105, 80, 0>>,          \* 0x50 + 0x50
          <<169, 80, 105, 144, 0>>,         \* 0x50 + 0x90
          <<169, 1, 105, 1, 0>>,            \* 0x01 + 0x01
          <<169, 255, 105, 1, 105, 0, 0>>,  \* 0xFF + 0x01, then + 0x00
          <<>>,                             \* the empty image
          <<2>>,                            \* an opcode with no arm
          <<169, 1, 255, 0>>,               \* no arm, after one instruction
          <<173, 4, 128, 0, 133>>,          \* lda absolute 0x8004
          <<173, 255, 255, 0>>,             \* lda absolute 0xFFFF
          <<109, 6, 128, 173, 6, 128, 144>>,\* adc absolute, then lda absolute
          <<165, 16, 0>>,                   \* lda zero page
          <<181, 255, 0>>,                  \* lda zero page,x
          <<189, 3, 128, 0, 7, 9>>,         \* lda absolute,x
          <<185, 255, 255, 0>>,             \* lda absolute,y
          <<161, 255, 0>>,                  \* lda (indirect,x)
          <<177, 255, 0>>,                  \* lda (indirect),y
          <<101, 16, 117, 16, 0>>,          \* adc zero page; zero page,x
          <<125, 5, 128, 121, 5, 128, 0>>,  \* adc absolute,x; absolute,y
          <<97, 1, 113, 1, 0>>}             \* adc (indirect,x); (indirect),y

\* Images that reach the top of memory: the length and the non-zero bytes.
LongPrograms ==
    {[len |-> 32764, nz |-> (0 :> 169) @@ (1 :> 7) @@ (32763 :> 234)],
     [len |-> 32765, nz |-> (0 :> 169) @@ (1 :> 7) @@ (32764 :> 234)],
     [len |-> 32767, nz |-> (32764 :> 234) @@ (32765 :> 235) @@ (32766 :> 236)],
     [len |-> 32768, nz |-> (0 :> 169) @@ (32767 :> 237)]}

Programs == {Image(bytes) : bytes \in ShortPrograms} \cup LongPrograms

\* Values a host writes into the public fields.
FieldValues ==
    [accumulator |-> {80},
     index_x |-> {1, 255},
     index_y |-> {1, 255},
     status |-> {37, 255},
     program_counter |-> {4660},
     stack_pointer |-> {0}]

EmptyImage == Image(<<>>)

\* target is the field or the address the call names, data the value it passes
Call(op, instructions, target, data) ==
    [op |-> op, instructions |-> instructions, target |-> target, data |-> data]

Outcome(status, panic, val) == [status |-> status, panic |-> panic, val |-> val]

\* The outcome and control position after a call that ran to its end.
Ended(r) ==
    /\ outcome' = Outcome(IF IsOk(r) THEN "returned" ELSE "panicked", r.panic, 0)
    /\ ctl' = IF IsOk(r) THEN "host" ELSE "panicked"

----------------------------------------------------------------------------
(* The state machine: a host that owns one CPU and calls its public        *)
(* operations, and the interpreter loop, one iteration per step.           *)

Init ==
    /\ cpu = new
    /\ overflow_checks \in BOOLEAN
    /\ ctl = "host"
    /\ call = Call("new", EmptyImage, "", 0)
    /\ outcome = Outcome("returned", NoPanic, 0)
    /\ entry = new
    /\ instr = NoInstr
    /\ loads = 0
    /\ direct = 0

\* cpu.load(instructions)
Load(instructions) ==
    /\ ctl = "host"
    /\ loads < MaxLoads
    /\ \E r \in {load(cpu, instructions, overflow_checks)} :
          /\ cpu' = r.val
          /\ Ended(r)
    /\ call' = Call("load", instructions, "", 0)
    /\ entry' = cpu
    /\ instr' = NoInstr
    /\ loads' = loads + 1
    /\ UNCHANGED <<overflow_checks, direct>>

\* cpu.reset()
Reset ==
    /\ ctl = "host"
    /\ \E r \in {reset(cpu, overflow_checks)} :
          /\ cpu' = r.val
          /\ Ended(r)
    /\ call' = Call("reset", EmptyImage, "", 0)
    /\ entry' = cpu
    /\ instr' = NoInstr
    /\ UNCHANGED <<overflow_checks, loads, direct>>

\* interpret that keeps the program counter it was called with
enter_keeps_pc(c, checks) == Done(c)

\* The first statement of interpret: the program counter is read from the
\* reset vector, then the loop starts.
enter(c, checks) ==
    LET Vector(vector) ==
            IF ~IsOk(vector) THEN Stopped(vector.panic, c)
            ELSE Done([c EXCEPT !.program_counter = vector.val])
    IN  Bind(mem_read_u16(c, ResetVector, checks), Vector)

Running(r) ==
    /\ outcome' = Outcome(IF IsOk(r) THEN "running" ELSE "panicked", r.panic, 0)
    /\ ctl' = IF IsOk(r) THEN "interpret" ELSE "panicked"

\* cpu.interpret(), up to the head of the loop
Interpret ==
    /\ ctl = "host"
    /\ \E r \in {enter(cpu, overflow_checks)} :
          /\ cpu' = r.val
          /\ Running(r)
    /\ call' = Call("interpret", EmptyImage, "", 0)
    /\ entry' = cpu
    /\ instr' = NoInstr
    /\ UNCHANGED <<overflow_checks, loads, direct>>

\* load, then reset, then interpret
load_and_interpret(c, instructions, checks) ==
    LET Restarted(restarted) ==
            IF ~IsOk(restarted) THEN restarted
            ELSE enter(restarted.val, checks)
        Loaded(loaded) ==
            IF ~IsOk(loaded) THEN loaded
            ELSE Restarted(reset(loaded.val, checks))
    IN  Loaded(load(c, instructions, checks))

\* cpu.load_and_interpret(instructions), up to the head of the loop
LoadAndInterpret(instructions) ==
    /\ ctl = "host"
    /\ loads < MaxLoads
    /\ \E r \in {load_and_interpret(cpu, instructions, overflow_checks)} :
          /\ cpu' = r.val
          /\ Running(r)
    /\ call' = Call("load_and_interpret", instructions, "", 0)
    /\ entry' = cpu
    /\ instr' = NoInstr
    /\ loads' = loads + 1
    /\ UNCHANGED <<overflow_checks, direct>>

\* cpu.<field> = value, for one of the pub fields
Poke(field, value) ==
    /\ ctl = "host"
    /\ direct < MaxPokes
    /\ cpu' = [cpu EXCEPT ![field] = value]
    /\ call' = Call("set", EmptyImage, field, value)
    /\ outcome' = Outcome("returned", NoPanic, 0)
    /\ entry' = cpu
    /\ instr' = NoInstr
    /\ direct' = direct + 1
    /\ UNCHANGED <<overflow_checks, ctl, loads>>

\* An iteration that executes a load or an add and goes round again.
Execute ==
    /\ ctl = "interpret"
    /\ \E r \in {iteration(cpu, overflow_checks)} :
          /\ IsOk(r)
          /\ InstructionTable[fetch(cpu).val].op \in {"lda", "adc"}
          /\ cpu' = r.val
    /\ instr' = Trace(cpu, overflow_checks)
    /\ UNCHANGED <<overflow_checks, ctl, call, outcome, entry, loads, direct>>

\* The iteration that fetches 0x00: interpret returns.
Return ==
    /\ ctl = "interpret"
    /\ \E r \in {iteration(cpu, overflow_checks)} :
          /\ IsOk(r)
          /\ InstructionTable[fetch(cpu).val].op = "return"
          /\ cpu' = r.val
    /\ instr' = Trace(cpu, overflow_checks)
    /\ ctl' = "host"
    /\ outcome' = Outcome("returned", NoPanic, 0)
    /\ UNCHANGED <<overflow_checks, call, entry, loads, direct>>

\* An iteration that panics: the run is over.
Abort ==
    /\ ctl = "interpret"
    /\ \E r \in {iteration(cpu, overflow_checks)} :
          /\ ~IsOk(r)
          /\ cpu' = r.val
          /\ outcome' = Outcome("panicked", r.panic, 0)
    /\ instr' = Trace(cpu, overflow_checks)
    /\ ctl' = "panicked"
    /\ UNCHANGED <<overflow_checks, call, entry, loads, direct>>

Next ==
    \/ \E instructions \in Programs : Load(instructions)
    \/ Reset
    \/ Interpret
    \/ \E instructions \in Programs : LoadAndInterpret(instructions)
    \/ \E field \in DOMAIN FieldValues : \E value \in FieldValues[field] :
          Poke(field, value)
    \/ Execute
    \/ Return
    \/ Abort

Spec == Init /\ [][Next]_vars

----------------------------------------------------------------------------
(* The memory helpers called directly, on a fresh CPU or one that has      *)
(* loaded an image, at addresses and values drawn from small sets.         *)

MemAddresses == {0, 255, 256, 32768, 65532, 65534, 65535}
MemBytes == {0, 1, 255}
MemWords == {0, 255, 32768, 65535}
MemImages ==
    {Image(<<169, 5, 0>>),
     [len |-> 32767, nz |-> (32764 :> 234) @@ (32765 :> 235) @@ (32766 :> 236)]}

InitMem ==
    /\ overflow_checks \in BOOLEAN
    /\ cpu \in {new} \cup {load(new, i, overflow_checks).val : i \in MemImages}
    /\ ctl = "host"
    /\ call = Call("new", EmptyImage, "", 0)
    /\ outcome = Outcome("returned", NoPanic, 0)
    /\ entry = cpu
    /\ instr = NoInstr
    /\ loads = 0
    /\ direct = 0

\* A helper that returns a value and leaves the struct alone.
Reads(op, address, r) ==
    /\ call' = Call(op, EmptyImage, address, 0)
    /\ outcome' = Outcome(IF IsOk(r) THEN "returned" ELSE "panicked", r.panic, r.val)
    /\ ctl' = IF IsOk(r) THEN "host" ELSE "panicked"
    /\ entry' = cpu
    /\ direct' = direct + 1
    /\ UNCHANGED <<cpu, overflow_checks, instr, loads>>

\* A helper that changes the struct.
Writes(op, address, data, r) ==
    /\ call' = Call(op, EmptyImage, address, data)
    /\ cpu' = r.val
    /\ Ended(r)
    /\ entry' = cpu
    /\ direct' = direct + 1
    /\ UNCHANGED <<overflow_checks, instr, loads>>

MemRead(address) ==
    /\ ctl = "host"
    /\ direct < MaxMemCalls
    /\ Reads("mem_read", address, mem_read(cpu, address))

MemWrite(address, data) ==
    /\ ctl = "host"
    /\ direct < MaxMemCalls
    /\ Writes("mem_write", address, data, mem_write(cpu, address, data))

MemReadU16(address) ==
    /\ ctl = "host"
    /\ direct < MaxMemCalls
    /\ Reads("mem_read_u16", address, mem_read_u16(cpu, address, overflow_checks))

MemWriteU16(address, data) ==
    /\ ctl = "host"
    /\ direct < MaxMemCalls
    /\ Writes("mem_write_u16", address, data,
              mem_write_u16(cpu, address, data, overflow_checks))

NextMem ==
    \/ \E address \in MemAddresses : MemRead(address)
    \/ \E address \in MemAddresses : \E data \in MemBytes : MemWrite(address, data)
    \/ \E address \in MemAddresses : MemReadU16(address)
    \/ \E address \in MemAddresses : \E data \in MemWords :
          MemWriteU16(address, data)

SpecMem == InitMem /\ [][NextMem]_vars

----------------------------------------------------------------------------
(* The flag updater applied to every status byte and every result byte.    *)

InitFlags ==
    /\ overflow_checks \in BOOLEAN
    /\ \E s \in Byte : cpu = [new EXCEPT !.status = s]
    /\ ctl = "host"
    /\ \E v \in Byte : call = Call("update_flags", EmptyImage, "", v)
    /\ outcome = Outcome("pending", NoPanic, 0)
    /\ entry = cpu
    /\ instr = NoInstr
    /\ loads = 0
    /\ direct = 0

UpdateFlags ==
    /\ ctl = "host"
    /\ outcome.status = "pending"
    /\ cpu' = update_flags(cpu, call.data)
    /\ outcome' = Outcome("returned", NoPanic, 0)
    /\ entry' = cpu
    /\ UNCHANGED <<overflow_checks, ctl, call, instr, loads, direct>>

NextFlags == UpdateFlags

SpecFlags == InitFlags /\ [][NextFlags]_vars

----------------------------------------------------------------------------
(* Properties.                                                             *)

CarryFlag(status) == Bit(status, 0) = 1
ZeroFlag(status) == Bit(status, 1) = 1
OverflowFlag(status) == Bit(status, 6) = 1
NegativeFlag(status) == Bit(status, 7) = 1

\* The most recent iteration ran the operation op and read its operand.
Ran(op) == instr.op = op /\ instr.value >= 0

\* C1: a load-accumulator instruction leaves the loaded byte in the
\* accumulator with the zero flag set iff the byte is zero and the negative
\* flag set iff its bit 7 is set; load_and_interpret of [0xA9, v, 0x00] on a
\* fresh CPU returns with accumulator v and those flags.
C1_LoadSetsFlags ==
    /\ (Ran("lda") /\ ctl # "panicked") =>
          /\ cpu.accumulator = instr.value
          /\ ZeroFlag(cpu.status) <=> (instr.value = 0)
          /\ NegativeFlag(cpu.status) <=> (instr.value >= 128)
    /\ ( /\ call.op = "load_and_interpret"
         /\ entry = new
         /\ ctl = "host"
         /\ call.instructions.len = 3
         /\ ByteAt(call.instructions, 0) = 169
         /\ ByteAt(call.instructions, 2) = 0 ) =>
          /\ cpu.accumulator = ByteAt(call.instructions, 1)
          /\ ZeroFlag(cpu.status) <=> (ByteAt(call.instructions, 1) = 0)
          /\ NegativeFlag(cpu.status) <=> (ByteAt(call.instructions, 1) >= 128)

\* A + M + C for the add the most recent iteration ran.
WideSum ==
    instr.before.accumulator + instr.value + Bit(instr.before.status, 0)

\* C2: add-with-carry leaves accumulator = (A + M + C) mod 256 and the carry
\* flag set iff A + M + C > 255, C being the carry flag when it executes.
C2_AdcSumAndCarry ==
    Ran("adc") =>
        /\ cpu.accumulator = WideSum % 256
        /\ CarryFlag(cpu.status) <=> (WideSum > 255)

\* C3: add-with-carry sets the overflow flag iff A and M have the same bit 7
\* and bit 7 of (A + M + C) mod 256 differs from it, and clears it otherwise.
C3_AdcSignedOverflow ==
    Ran("adc") =>
        ( OverflowFlag(cpu.status) <=>
            /\ Bit(instr.before.accumulator, 7) = Bit(instr.value, 7)
            /\ Bit(WideSum % 256, 7) # Bit(instr.before.accumulator, 7) )

\* The panic message formats the value v into its text.
Identifies(panic, v) == \E i \in 1 .. Len(panic.args) : panic.args[i] = v

\* C4: fetching an opcode with no table entry ends the run fatally, with an
\* error that identifies the opcode byte and the program-counter location.
C4_IllegalOpcodeReported ==
    instr.op = "todo" =>
        /\ ctl = "panicked"
        /\ Identifies(outcome.panic, instr.opcode)
        /\ Identifies(outcome.panic, instr.at)

\* The most recent call was load, and it returned.
LoadReturned == call.op = "load" /\ outcome.status = "returned"

\* memory[0x8000 + i] = instructions[i] for every i < len whose cell is not
\* in skip.  Where the image byte and the cell are both zero there is
\* nothing to compare, so the indices are those of the image's non-zero
\* bytes and of the non-zero cells of the region.
Verbatim(memory, instructions, skip) ==
    /\ \A i \in DOMAIN instructions.nz :
          (ProgramStart + i) \notin skip =>
              Cell(memory, ProgramStart + i) = instructions.nz[i]
    /\ \A a \in DOMAIN memory :
          (a >= ProgramStart /\ a < ProgramStart + instructions.len
             /\ a \notin skip) =>
              memory[a] = ByteAt(instructions, a - ProgramStart)

VectorInstalled ==
    /\ loads > 0
    /\ outcome.panic.kind # RangeEndOutOfRange(0).kind

\* C6: after a load, the cells 0xFFFC and 0xFFFD read back little-endian as
\* 0x8000, and a reset at any later point sets the program counter to 0x8000.
C6_ResetVectorRoundTrip ==
    VectorInstalled =>
        /\ Cell(cpu.memory, 65532) + 256 * Cell(cpu.memory, 65533) = 32768
        /\ mem_read_u16(cpu, 65532, overflow_checks) = Ok(32768)
        /\ (call.op = "reset") => (cpu.program_counter = 32768)

\* reset has run after the load of an image that covers the reset vector,
\* from a program counter that a run had moved.
C6_Witness ==
    /\ VectorInstalled
    /\ call.op = "reset"
    /\ outcome.status = "returned"
    /\ entry.program_counter \notin {0, 32768}
    /\ Cell(cpu.memory, 65534) # 0

\* C7: reset leaves accumulator, index-X and index-Y 0, the stack pointer
\* 0xFD, status 0b00100100, the program counter equal to the little-endian
\* word at 0xFFFC/0xFFFD and every memory cell unchanged; the registers are
\* those of a new CPU apart from the program counter.
C7_ResetRestoresPowerOn ==
    (call.op = "reset") =>
        /\ outcome.status = "returned"
        /\ cpu.accumulator = 0
        /\ cpu.index_x = 0
        /\ cpu.index_y = 0
        /\ cpu.stack_pointer = 253
        /\ cpu.status = 36
        /\ cpu.program_counter =
              Cell(entry.memory, 65532) + 256 * Cell(entry.memory, 65533)
        /\ cpu.memory = entry.memory
        /\ [cpu EXCEPT !.program_counter = 0, !.memory = ZeroMemory] = new

\* reset has run on a CPU whose accumulator, index-X, status and program
\* counter an earlier run and a field write had changed.
C7_Witness ==
    /\ call.op = "reset"
    /\ entry.accumulator # 0
    /\ entry.index_x # 0
    /\ entry.status # 36
    /\ entry.program_counter # 32768
    /\ entry.memory # ZeroMemory

\* C8: at every 16-bit address, 0xFFFF included, write(a, b) succeeds and a
\* following read(a) returns b; no read or write produces a bounds error.
C8_FullAddressSpace ==
    /\ (call.op \in {"mem_read", "mem_write"}) => (outcome.status = "returned")
    /\ (call.op = "mem_write" /\ outcome.status = "returned") =>
          (mem_read(cpu, call.target) = Ok(call.data))

\* C9: update_flags leaves bit 1 set iff the result is zero, bit 7 set iff
\* bit 7 of the result is set, and bits 0, 2, 3, 4, 5 and 6 as they were.
C9_ZeroNegativeOnly ==
    (call.op = "update_flags" /\ outcome.status = "returned") =>
        /\ ZeroFlag(cpu.status) <=> (call.data = 0)
        /\ NegativeFlag(cpu.status) <=> (call.data >= 128)
        /\ \A i \in {0, 2, 3, 4, 5, 6} : Bit(cpu.status, i) = Bit(entry.status, i)
        /\ [cpu EXCEPT !.status = 0] = [entry EXCEPT !.status = 0]

\* update_flags has cleared both flags of an all-ones status byte.
C9_Witness ==
    /\ call.op = "update_flags"
    /\ outcome.status = "returned"
    /\ entry.status = 255
    /\ call.data = 1
    /\ cpu.status = 125

\* C10: the 16-bit read and write take the high byte at (address + 1) mod
\* 65536 without failing: read16 at 0xFFFF returns memory[0xFFFF] as low
\* byte and memory[0x0000] as high byte, write16 at 0xFFFF stores the high
\* byte at 0x0000.
C10_WordAccessWraps ==
    /\ (call.op = "mem_read_u16") =>
          /\ outcome.status = "returned"
          /\ outcome.val = Cell(entry.memory, call.target)
                           + 256 * Cell(entry.memory, (call.target + 1) % 65536)
    /\ (call.op = "mem_write_u16") =>
          /\ outcome.status = "returned"
          /\ Cell(cpu.memory, call.target) = call.data % 256
          /\ Cell(cpu.memory, (call.target + 1) % 65536) = call.data \div 256

\* The number of bytes that follow the opcode of an instruction of a mode.
TrailingBytes(mode) ==
    IF mode \in {"Absolute", "AbsoluteX", "AbsoluteY"} THEN 2 ELSE 1

\* C11: an instruction whose opcode was fetched at p leaves the program
\* counter at p + 1 + n, n the trailing-byte count of its mode, whatever
\* address it resolved; the halt opcode fetched at p leaves it at p + 1.
C11_ProgramCounterAdvance ==
    /\ (instr.op \in {"lda", "adc"} /\ ctl # "panicked") =>
          (cpu.program_counter = instr.at + 1 + TrailingBytes(instr.mode))
    /\ (instr.op = "return") =>
          (ctl = "host" /\ cpu.program_counter = instr.at + 1)

\* A three-byte instruction has run and resolved an address far from the
\* program counter.
C11_Witness ==
    /\ instr.op \in {"lda", "adc"}
    /\ ctl # "panicked"
    /\ TrailingBytes(instr.mode) = 2
    /\ instr.address >= 0
    /\ instr.address # instr.at + 1
    /\ cpu.program_counter = instr.at + 3

\* The run was aborted by a panic inside an iteration of the loop.
RunAborted ==
    /\ ctl = "panicked"
    /\ call.op \in {"interpret", "load_and_interpret"}
    /\ instr # NoInstr

\* C12: when the run aborts while processing an instruction, accumulator,
\* index registers, status, stack pointer and every memory cell hold the
\* values they had when the instruction's opcode was fetched.
C12_AbortLeavesNoPartialResult ==
    RunAborted =>
        /\ cpu.accumulator = instr.before.accumulator
        /\ cpu.index_x = instr.before.index_x
        /\ cpu.index_y = instr.before.index_y
        /\ cpu.status = instr.before.status
        /\ cpu.stack_pointer = instr.before.stack_pointer
        /\ cpu.memory = instr.before.memory

\* An add whose sum is above 255 has aborted the run, after an earlier
\* instruction of the same run had changed the accumulator.
C12_Witness ==
    /\ RunAborted
    /\ instr.op = "adc"
    /\ instr.value >= 0
    /\ instr.before.accumulator + instr.value > 255
    /\ outcome.panic = AddOverflow
    /\ cpu.accumulator # entry.accumulator

\* C13: executing a defined load-accumulator or add-with-carry opcode never
\* aborts the run, whatever the accumulator, the operand and the effective
\* address are.
C13_DefinedOpcodesNeverAbort ==
    (instr.op \in {"lda", "adc"}) => ~RunAborted

----------------------------------------------------------------------------
(* The operand resolver called directly, in every addressing mode, on a    *)
(* CPU whose zero page, operand bytes and index registers were prepared    *)
(* with mem_write and through the public register fields.                  *)

\* Zero-page cells (and the two cells just above the zero page) with the
\* byte each one holds.
PointerTable ==
    << <<0, 52>>, <<1, 18>>, <<2, 86>>, <<3, 154>>, <<4, 33>>,
       <<127, 67>>, <<128, 254>>, <<129, 255>>, <<130, 101>>, <<131, 135>>,
       <<253, 169>>, <<254, 203>>, <<255, 171>>, <<256, 119>>, <<257, 153>> >>

OperandBytes == {0, 1, 128, 254, 255}
OperandHighBytes == {0, 18, 255}
IndexValues == {0, 1, 2, 255}
OperandAddresses == {1536, 65534}

RECURSIVE WriteAll(_, _)
\* mem_write applied to each <<address, data>> of the list in turn
WriteAll(c, writes) ==
    IF writes = <<>> THEN c
    ELSE WriteAll(mem_write(c, Head(writes)[1], Head(writes)[2]).val,
                  Tail(writes))

InitResolve ==
    /\ overflow_checks \in BOOLEAN
    /\ \E pc \in OperandAddresses : \E b \in OperandBytes :
       \E h \in OperandHighBytes : \E x \in IndexValues : \E y \in IndexValues :
          cpu = [WriteAll(new, PointerTable \o << <<pc, b>>, <<pc + 1, h>> >>)
                    EXCEPT !.program_counter = pc, !.index_x = x, !.index_y = y]
    /\ ctl = "host"
    /\ call = Call("new", EmptyImage, "", 0)
    /\ outcome = Outcome("returned", NoPanic, 0)
    /\ entry = cpu
    /\ instr = NoInstr
    /\ loads = 0
    /\ direct = 0

\* self.address_operand(&mode); the struct is left alone
Resolve(mode) ==
    /\ ctl = "host"
    /\ \E r \in {address_operand(cpu, mode, overflow_checks)} :
          /\ outcome' = Outcome(IF IsOk(r) THEN "returned" ELSE "panicked",
                                r.panic, r.val)
          /\ ctl' = IF IsOk(r) THEN "host" ELSE "panicked"
    /\ call' = Call("address_operand", EmptyImage, mode, 0)
    /\ entry' = cpu
    /\ UNCHANGED <<cpu, overflow_checks, instr, loads, direct>>

NextResolve == \E mode \in AddressingMode : Resolve(mode)

SpecResolve == InitResolve /\ [][NextResolve]_vars

\* The resolver was called in the given mode and returned an address.
Resolved(mode) ==
    /\ call.op = "address_operand"
    /\ call.target = mode
    /\ outcome.status = "returned"

\* The byte and the little-endian word at the program counter.
OperandByte == Cell(cpu.memory, cpu.program_counter)
OperandWord ==
    Cell(cpu.memory, cpu.program_counter)
        + 256 * Cell(cpu.memory, cpu.program_counter + 1)

\* C15: ZeroPageX resolves to (b + X) mod 256 and ZeroPageY to (b + Y) mod
\* 256, b being the byte at the program counter; the result is in 0..255.
C15_ZeroPageIndexedWraps ==
    /\ Resolved("ZeroPageX") =>
          /\ outcome.val = (OperandByte + cpu.index_x) % 256
          /\ outcome.val \in 0..255
    /\ Resolved("ZeroPageY") =>
          /\ outcome.val = (OperandByte + cpu.index_y) % 256
          /\ outcome.val \in 0..255

\* Base 0xFF with index 0x02 has resolved to 0x0001.
C15_Witness ==
    /\ Resolved("ZeroPageY")
    /\ OperandByte = 255
    /\ cpu.index_y = 2
    /\ outcome.val = 1

\* C16: AbsoluteX resolves to (w + X) mod 65536 and AbsoluteY to (w + Y) mod
\* 65536, w being the little-endian word at the program counter.
C16_AbsoluteIndexedWraps ==
    /\ Resolved("AbsoluteX") =>
          outcome.val = (OperandWord + cpu.index_x) % 65536
    /\ Resolved("AbsoluteY") =>
          outcome.val = (OperandWord + cpu.index_y) % 65536

\* The sum has crossed a page boundary without wrapping.
C16_Witness ==
    /\ Resolved("AbsoluteX")
    /\ OperandWord = 255
    /\ cpu.index_x = 2
    /\ outcome.val = 257

\* The sum has wrapped at 0xFFFF.
C16_WitnessWrap ==
    /\ Resolved("AbsoluteY")
    /\ OperandWord = 65535
    /\ cpu.index_y = 2
    /\ outcome.val = 1

\* The little-endian word whose low byte is at zero-page address p and whose
\* high byte is at (p + 1) mod 256.
PointerAt(p) == Cell(cpu.memory, p) + 256 * Cell(cpu.memory, (p + 1) % 256)

\* C17: IndirectX resolves to memory[p] + 256 * memory[(p + 1) mod 256] with
\* p = (b + X) mod 256, b being the byte at the program counter.
C17_IndirectXPointer ==
    Resolved("IndirectX") =>
        outcome.val = PointerAt((OperandByte + cpu.index_x) % 256)

\* The pointer is 0xFF and its high byte came from address 0x0000, not from
\* 0x0100.
C17_Witness ==
    /\ Resolved("IndirectX")
    /\ OperandByte = 254
    /\ cpu.index_x = 1
    /\ Cell(cpu.memory, 0) # Cell(cpu.memory, 256)
    /\ outcome.val = Cell(cpu.memory, 255) + 256 * Cell(cpu.memory, 0)

\* The sum b + X itself has wrapped.
C17_WitnessWrap ==
    /\ Resolved("IndirectX")
    /\ OperandByte = 255
    /\ cpu.index_x = 2
    /\ outcome.val = Cell(cpu.memory, 1) + 256 * Cell(cpu.memory, 2)

\* C18: IndirectY resolves to (base + Y) mod 65536 with
\* base = memory[b] + 256 * memory[(b + 1) mod 256], b being the byte at the
\* program counter.
C18_IndirectYPointer ==
    Resolved("IndirectY") =>
        outcome.val = (PointerAt(OperandByte) + cpu.index_y) % 65536

\* The pointer is 0xFF: its high byte came from address 0x0000, and the
\* index was added after the dereference.
C18_Witness ==
    /\ Resolved("IndirectY")
    /\ OperandByte = 255
    /\ cpu.index_y = 255
    /\ Cell(cpu.memory, 0) # Cell(cpu.memory, 256)
    /\ outcome.val = Cell(cpu.memory, 255) + 256 * Cell(cpu.memory, 0) + 255

\* The sum base + Y has wrapped at 0xFFFF.
C18_WitnessWrap ==
    /\ Resolved("IndirectY")
    /\ PointerAt(OperandByte) = 65534
    /\ cpu.index_y = 2
    /\ outcome.val = 0

\* Status bits 2, 3, 4 and 5.
FrameBits(status) == BitAnd(status, 60)

\* load_and_interpret() was called and its load and reset have returned.
LoadedAndReset ==
    /\ call.op = "load_and_interpret"
    /\ outcome.panic.kind # RangeEndOutOfRange(0).kind

\* C19: in every state reached during interpret(), memory, index_x, index_y
\* and the stack pointer are as they were when interpret() was called and
\* status bits 2..5 are unchanged; after load_and_interpret index_x and
\* index_y are 0, the stack pointer is 0xFD, status bits 2 and 5 are set and
\* bits 3 and 4 are clear.
C19_RunFrame ==
    /\ (call.op = "interpret") =>
          /\ cpu.memory = entry.memory
          /\ cpu.index_x = entry.index_x
          /\ cpu.index_y = entry.index_y
          /\ cpu.stack_pointer = entry.stack_pointer
          /\ FrameBits(cpu.status) = FrameBits(entry.status)
    /\ LoadedAndReset =>
          /\ cpu.index_x = 0
          /\ cpu.index_y = 0
          /\ cpu.stack_pointer = 253
          /\ FrameBits(cpu.status) = 36

\* interpret() was called with every status bit set and an add has changed
\* the status register.
C19_Witness ==
    /\ call.op = "interpret"
    /\ Ran("adc")
    /\ ctl # "panicked"
    /\ entry.status = 255
    /\ cpu.status # entry.status
    /\ cpu.accumulator # entry.accumulator

\* load_and_interpret has run an add to its end.
C19_WitnessLoaded ==
    /\ LoadedAndReset
    /\ Ran("adc")
    /\ ctl # "panicked"
    /\ cpu.status # 36

----------------------------------------------------------------------------
(* interpret() on memories prepared with mem_write or load: the reset       *)
(* vector at the bottom, in the middle and at the top of the address       *)
(* space, and code that runs into the last cells of the array.             *)

\* How many rounds of the loop a whole run is followed for.
MaxRounds == 6

RECURSIVE RunLoop(_, _, _, _)
\* The loop of interpret from the struct c, for at most the given number of
\* rounds: the panic that ended it if any, the struct it leaves, the
\* addresses it fetched opcodes at, and whether it has ended.
RunLoop(c, checks, fetched, rounds) ==
    LET Round(r, at) ==
            IF ~IsOk(r) \/ InstructionTable[fetch(c).val].op = "return"
            THEN [panic |-> r.panic, val |-> r.val, fetched |-> at, ended |-> TRUE]
            ELSE RunLoop(r.val, checks, at, rounds - 1)
    IN  IF rounds = 0
        THEN [panic |-> NoPanic, val |-> c, fetched |-> fetched, ended |-> FALSE]
        ELSE Bind(iteration(c, checks),
                  LAMBDA r : Round(r, Append(fetched, c.program_counter)))

\* cpu.interpret() as a whole
interpret(c, checks) ==
    LET Entered(r) ==
            IF ~IsOk(r)
            THEN [panic |-> r.panic, val |-> r.val, fetched |-> <<>>, ended |-> TRUE]
            ELSE RunLoop(r.val, checks, <<>>, MaxRounds)
    IN  Bind(enter(c, checks), Entered)

\* An image that ends at 0xFFFB: thirty two-byte instructions from 0xFFBD on
\* (lda #n and adc #n in turn), then adc 0x0010 at 0xFFF9.
ImageToTheTop ==
    [len |-> 32764,
     nz |-> [i \in 32701..32762 |->
                IF i = 32761 THEN 109
                ELSE IF i = 32762 THEN 16
                ELSE IF (i - 32701) % 4 = 0 THEN 169
                ELSE IF (i - 32701) % 4 = 2 THEN 105
                ELSE (i - 32700) \div 2]]

\* The reset vector 0xFFBD, whose two bytes with the byte at 0xFFFE are
\* themselves the instruction lda 0x01FF,X.
VectorIntoTheTop == << <<65532, 189>>, <<65533, 255>>, <<65534, 1>> >>

\* The reset vector 0xFFFE and the opcode stored there.
VectorAtTheTop(opcode) ==
    << <<65532, 254>>, <<65533, 255>>, <<65534, opcode>> >>

\* The reset vector left at 0x0000 and a program in the zero page:
\* lda #0x80; adc #0x80; lda 0x01; adc (0x03,X); brk.
CodeInZeroPage ==
    << <<0, 169>>, <<1, 128>>, <<2, 105>>, <<3, 128>>, <<4, 165>>, <<5, 1>>,
       <<6, 97>>, <<7, 3>>, <<8, 0>> >>

\* The reset vector 0x0600 and a program with an undefined opcode.
CodeWithUndefinedOpcode ==
    << <<65532, 0>>, <<65533, 6>>,
       <<1536, 173>>, <<1537, 0>>, <<1538, 6>>, <<1539, 2>> >>

RunMemories ==
    {WriteAll(load(new, ImageToTheTop, TRUE).val, VectorIntoTheTop),
     WriteAll(new, VectorAtTheTop(169)),
     WriteAll(new, VectorAtTheTop(0)),
     WriteAll(new, CodeInZeroPage),
     WriteAll(new, CodeWithUndefinedOpcode),
     load(new, Image(<<181, 1, 113, 0, 0>>), TRUE).val}

RunAccumulators == {0, 200}
RunIndexes == {0, 1}
RunCounters == {0, 4660, 32768, 65535}

InitRun ==
    /\ overflow_checks \in BOOLEAN
    /\ \E m \in RunMemories : \E a \in RunAccumulators : \E x \in RunIndexes :
       \E pc \in RunCounters :
          cpu = [m EXCEPT !.accumulator = a, !.index_x = x, !.index_y = x,
                          !.program_counter = pc]
    /\ ctl = "host"
    /\ call = Call("new", EmptyImage, "", 0)
    /\ outcome = Outcome("returned", NoPanic, 0)
    /\ entry = cpu
    /\ instr = NoInstr
    /\ loads = 0
    /\ direct = 0

NextRun ==
    \/ Interpret
    \/ Execute
    \/ Return
    \/ Abort

SpecRun == InitRun /\ [][NextRun]_vars

\* The loop runs on one thread of control without yield points: an
\* iteration that can be taken is taken.
SpecRunFair ==
    /\ SpecRun
    /\ WF_vars(Execute)
    /\ WF_vars(Return)
    /\ WF_vars(Abort)

\* C14: the run loop terminates.  Every iteration that goes round again
\* leaves the program counter strictly higher than it found it, and a run
\* that is in the loop eventually leaves it, by the halt opcode or by a
\* panic.
C14_RunTerminates ==
    /\ [][(ctl = "interpret" /\ ctl' = "interpret") =>
             cpu'.program_counter > cpu.program_counter]_vars
    /\ (ctl = "interpret") ~> (ctl # "interpret")

\* A run has executed instructions up to the last cell of the array and
\* ended on the fetch at 0xFFFF.
C14_Witness ==
    /\ call.op = "interpret"
    /\ ctl = "panicked"
    /\ instr.at = 65535
    /\ cpu.program_counter = 65535
    /\ outcome.panic = IndexOutOfBounds(65535)

\* A run has ended on the halt opcode after executing an instruction.
C14_WitnessHalt ==
    /\ call.op = "interpret"
    /\ ctl = "host"
    /\ instr.op = "return"
    /\ cpu.accumulator # entry.accumulator

\* The little-endian word the reset vector of a struct holds.
VectorOf(c) == Cell(c.memory, 65532) + 256 * Cell(c.memory, 65533)

\* C20: interpret() starts fetching at the address stored in the reset
\* vector whatever the program counter was when it was called, and restores
\* no other register; two calls that differ only in the program counter
\* fetch at the same addresses and end in the same state.
C20_RunStartsAtResetVector ==
    /\ (call.op = "interpret" /\ ctl = "interpret" /\ instr = NoInstr) =>
          /\ cpu = [entry EXCEPT !.program_counter = VectorOf(entry)]
          /\ \A pc \in RunCounters :
                /\ enter([entry EXCEPT !.program_counter = pc], overflow_checks)
                      = enter(entry, overflow_checks)
                /\ interpret([entry EXCEPT !.program_counter = pc], overflow_checks)
                      = interpret(entry, overflow_checks)
    /\ (call.op = "interpret" /\ instr # NoInstr) =>
          instr.at >= VectorOf(entry)
    /\ (call.op = "interpret" /\ ctl # "interpret") =>
          \/ ~interpret(entry, overflow_checks).ended
          \/ /\ cpu = interpret(entry, overflow_checks).val
             /\ outcome.panic = interpret(entry, overflow_checks).panic
             /\ interpret(entry, overflow_checks).fetched[1] = VectorOf(entry)

\* interpret() was called with a program counter that is not the reset
\* vector and with an index register that is not at its power-on value; it
\* has run an instruction and returned, the index register as it was.
C20_Witness ==
    /\ call.op = "interpret"
    /\ ctl = "host"
    /\ entry.program_counter = 4660
    /\ VectorOf(entry) # 4660
    /\ interpret(entry, overflow_checks).ended
    /\ Len(interpret(entry, overflow_checks).fetched) > 1
    /\ cpu.accumulator # entry.accumulator
    /\ entry.index_x = 1
    /\ cpu.index_x = 1

====
